---- MODULE Spec2Model ----
(***************************************************************************)
(* dvswitch network server (src/src/server.cpp): the poll()-driven event   *)
(* loop server::serve, the per-connection receive state machines           *)
(* (unknown_connection, source_connection, sink_connection), the sink      *)
(* send path sink_connection::do_send and the mixer-thread callback        *)
(* sink_connection::put_frame with its wakeup through the message pipe.    *)
(*                                                                         *)
(* One event-loop thread runs serve(); its position is pc.  The mixer      *)
(* thread runs put_frame on live sinks; its position inside a call is the  *)
(* per-sink field put_pc.  Taking a sink's mutex_ is a step; the block     *)
(* under the mutex, up to its release, is the next step of that thread;    *)
(* everything outside the mutex is a step of its own.                      *)
(***************************************************************************)
EXTENDS Integers, Sequences, FiniteSets, TLC

(***************************************************************************)
(* Bounds of the model (the environment's behaviour, and scaled sizes).    *)
(***************************************************************************)
MaxAccepts == 2        \* connections accepted when several clients connect
FewPuts == 1           \* put_frame calls when several clients connect
MaxPuts == 3           \* put_frame calls on a single sink
MaxCutFrames == 1      \* frames whose cut_before the mixer may set
ExtraPuts == 2         \* put_frame calls beyond the ring capacity
DifSequenceSize == 1   \* DIF_SEQUENCE_SIZE, scaled down
MixFrameSize == 2      \* size of a mixed frame's body, scaled down

(***************************************************************************)
(* Program constants.                                                      *)
(***************************************************************************)
frames_capacity == 30          \* ring_buffer<mixer::frame_ptr, 30> frames_
messages_size == 1024          \* int messages[1024]
GREETING_SIZE == 4
SINK_FRAME_HEADER_SIZE == 4
SINK_FRAME_CUT_FLAG_POS == 0

POLLIN == "POLLIN"
POLLOUT == "POLLOUT"
POLLHUP == "POLLHUP"
POLLERR == "POLLERR"

send_failed == "send_failed"
sent_some == "sent_some"
sent_all == "sent_all"

\* One byte on a socket.  v is the byte's literal value where the code
\* looks at it (greeting characters, sink frame header, the DV header's
\* system code); k and o name the frame and the offset a payload byte
\* belongs to, so that payload bytes of different frames differ.
Byte(k, o, v) == [k |-> k, o |-> o, v |-> v]

Text(codes) == [j \in 1..Len(codes) |-> Byte(0, j - 1, codes[j])]

GREETING_SOURCE == Text(<<83, 79, 82, 67>>)       \* "SORC"
GREETING_SINK == Text(<<83, 73, 78, 75>>)         \* "SINK"
GREETING_RAW_SINK == Text(<<82, 83, 78, 75>>)     \* "RSNK"

Min(a, b) == IF a < b THEN a ELSE b

Drop(s, n) == SubSeq(s, n + 1, Len(s))

Take(s, n) == SubSeq(s, 1, n)

\* memcpy of data into buf at offset pointer (what read() does to the
\* region named by receive_buffer_).
WriteAt(buf, pointer, data) ==
    LET n == Len(data)
        len == IF Len(buf) > pointer + n THEN Len(buf) ELSE pointer + n
    IN [j \in 1..len |->
           IF j > pointer /\ j <= pointer + n THEN data[j - pointer]
           ELSE IF j <= Len(buf) THEN buf[j]
           ELSE Byte(0, 0, 0)]

(***************************************************************************)
(* The DV decoder (libdv), an external primitive: dv_parse_header looks    *)
(* at the head of the first DIF sequence and yields the video system, or   *)
(* fails.  decoder->frame_size is a whole number of DIF sequences.         *)
(***************************************************************************)
SYSTEM_525_60 == "system_525_60"
SYSTEM_625_50 == "system_625_50"

dv_parse_header(buffer) ==
    IF Len(buffer) = 0 THEN "fail"
    ELSE IF buffer[1].v = 1 THEN SYSTEM_525_60
    ELSE IF buffer[1].v = 2 THEN SYSTEM_625_50
    ELSE "fail"

decoder_frame_size(system) ==
    IF system = SYSTEM_525_60 THEN 2 * DifSequenceSize ELSE 3 * DifSequenceSize

\* The k-th DV frame of a client's stream with the given header code.
DVFrame(k, code) ==
    [j \in 1..(IF code = 1 THEN 2 * DifSequenceSize ELSE 3 * DifSequenceSize) |->
        Byte(k, j - 1, IF j = 1 THEN code ELSE 0)]

(***************************************************************************)
(* What a client may send after connecting: a greeting (complete or not,   *)
(* known or not) followed by data.                                         *)
(***************************************************************************)
Peers ==
    { GREETING_SOURCE \o DVFrame(1, 1) \o DVFrame(2, 2),
      GREETING_SOURCE \o DVFrame(1, 2) \o DVFrame(2, 9),
      GREETING_SINK \o Text(<<33>>),
      GREETING_RAW_SINK,
      Text(<<88, 88, 88, 88>>),
      Text(<<83, 73, 78, 88>>) }

(***************************************************************************)
(* Frames handed to sinks by the mixer: frame_ptr to {buffer, size,        *)
(* cut_before}.  The buffer of frame id is determined by id.               *)
(***************************************************************************)
MixedFrame(id, cut) == [id |-> id, cut_before |-> cut, size |-> MixFrameSize]

FrameBuffer(frame) == [j \in 1..frame.size |-> Byte(frame.id, j - 1, 0)]

NoFrame == [id |-> 0, cut_before |-> FALSE, size |-> 0]

\* mixer.allocate_frame(): a buffer whose contents and size are not yet set.
allocate_frame == [buffer |-> <<>>, system |-> "none", size |-> 0]

\* The first size bytes of a frame's buffer; a byte never written reads as
\* Byte(0, 0, 0).
FrameBytes(buffer, size) ==
    [j \in 1..size |-> IF j <= Len(buffer) THEN buffer[j] ELSE Byte(0, 0, 0)]

(***************************************************************************)
(* The mixer, seen through the operations the server calls on it.  It      *)
(* keeps the identities in use and counts the calls made on it; misuse     *)
(* records a remove_* or put_frame naming an identity that is not in use.  *)
(***************************************************************************)
mixer_new ==
    [sources |-> {}, sinks |-> {},
     add_source |-> 0, remove_source |-> 0,
     add_sink |-> 0, remove_sink |-> 0,
     misuse |-> FALSE]

FreeId(used) == CHOOSE id \in 0..Cardinality(used) :
                    id \notin used /\ \A j \in 0..(id - 1) : j \in used

mixer_add_source(mx) ==
    LET id == FreeId(mx.sources)
    IN [id |-> id,
        mixer |-> [mx EXCEPT !.sources = @ \cup {id}, !.add_source = @ + 1]]

mixer_remove_source(mx, id) ==
    [mx EXCEPT !.sources = @ \ {id}, !.remove_source = @ + 1,
               !.misuse = @ \/ id \notin mx.sources]

mixer_put_frame(mx, id) == [mx EXCEPT !.misuse = @ \/ id \notin mx.sources]

mixer_add_sink(mx) ==
    LET id == FreeId(mx.sinks)
    IN [id |-> id,
        mixer |-> [mx EXCEPT !.sinks = @ \cup {id}, !.add_sink = @ + 1]]

mixer_remove_sink(mx, id) ==
    [mx EXCEPT !.sinks = @ \ {id}, !.remove_sink = @ + 1,
               !.misuse = @ \/ id \notin mx.sinks]

(***************************************************************************)
(* Connection objects.  Every record carries the fields of all three       *)
(* classes; those a class does not have keep their initial value.          *)
(*   cid, hello, rx, published, pushed, wire, nput are history kept for    *)
(*   the properties: the connection's serial number, the greeting the      *)
(*   client sent, the bytes a source has read since, the frames it handed  *)
(*   to mixer.put_frame, the frames                                        *)
(*   put_frame pushed on a sink's queue, the bytes writev accepted and     *)
(*   the number of put_frame calls on the sink.                            *)
(*   put_pc is the mixer thread's position inside put_frame on this sink:  *)
(*   "idle" (no call), "locked" (inside the block under mutex_), "wake"    *)
(*   (about to write the message).  mutex_ is the thread that holds the    *)
(*   sink's mutex: "free", "loop" or "mixer".                              *)
(***************************************************************************)
unknown_connection(cid, socket) ==
    [cid |-> cid, kind |-> "unknown", socket_ |-> socket,
     receive_buffer_ |-> [pointer |-> 0, size |-> 0],
     greeting_ |-> <<>>, hello |-> <<>>,
     frame_ |-> allocate_frame, first_sequence_ |-> FALSE, source_id_ |-> -1,
     rx |-> <<>>, published |-> <<>>,
     is_raw_ |-> FALSE, sink_id_ |-> -1, frame_pos_ |-> 0,
     frames_ |-> <<>>, overflowed_ |-> FALSE,
     pushed |-> <<>>, wire |-> <<>>, nput |-> 0, put_pc |-> "idle",
     mutex_ |-> "free"]

source_connection(old, id) ==
    [unknown_connection(old.cid, old.socket_) EXCEPT
        !.kind = "source", !.hello = old.greeting_,
        !.frame_ = allocate_frame, !.first_sequence_ = TRUE,
        !.source_id_ = id]

\* sink_connection that does not take over the socket of the connection
\* it replaces.
sink_connection_without_socket(old, is_raw, id) ==
    [unknown_connection(old.cid, -1) EXCEPT
        !.kind = "sink", !.hello = old.greeting_,
        !.is_raw_ = is_raw, !.sink_id_ = id,
        !.frame_pos_ = 0, !.overflowed_ = FALSE]

sink_connection(old, is_raw, id) ==
    [unknown_connection(old.cid, old.socket_) EXCEPT
        !.kind = "sink", !.hello = old.greeting_,
        !.is_raw_ = is_raw, !.sink_id_ = id,
        !.frame_pos_ = 0, !.overflowed_ = FALSE]

\* get_receive_buffer with the remainder of a frame read to the head of
\* the frame's buffer (frame_->buffer without + DIF_SEQUENCE_SIZE).
get_receive_buffer_at_head(c) ==
    IF c.kind = "unknown" THEN [pointer |-> 0, size |-> GREETING_SIZE]
    ELSE IF c.kind = "source" THEN
        IF c.first_sequence_
        THEN [pointer |-> 0, size |-> DifSequenceSize]
        ELSE [pointer |-> 0, size |-> c.frame_.size - DifSequenceSize]
    ELSE [pointer |-> 0, size |-> 1]

get_receive_buffer(c) ==
    IF c.kind = "unknown" THEN [pointer |-> 0, size |-> GREETING_SIZE]
    ELSE IF c.kind = "source" THEN
        IF c.first_sequence_
        THEN [pointer |-> 0, size |-> DifSequenceSize]
        ELSE [pointer |-> DifSequenceSize,
              size |-> c.frame_.size - DifSequenceSize]
    ELSE [pointer |-> 0, size |-> 1]

\* The outcome of handle_complete_receive / do_receive: result is "this"
\* (the same object), "new" (a replacement object), "null" or "throw".
Outcome(result, c, mx) == [result |-> result, conn |-> c, mixer |-> mx]

\* unknown_handle_complete_receive comparing one byte too few of the
\* greeting (memcmp over GREETING_SIZE - 1 bytes).
unknown_handle_complete_receive_short(c, throws, mx) ==
    LET n == GREETING_SIZE - 1
        client_type ==
            IF Take(c.greeting_, n) = Take(GREETING_SOURCE, n)
            THEN "client_type_source"
            ELSE IF Take(c.greeting_, n) = Take(GREETING_SINK, n)
            THEN "client_type_sink"
            ELSE IF Take(c.greeting_, n) = Take(GREETING_RAW_SINK, n)
            THEN "client_type_raw_sink"
            ELSE "client_type_unknown"
    IN  IF client_type = "client_type_source" THEN
            IF throws THEN Outcome("throw", c, mx)
            ELSE LET a == mixer_add_source(mx)
                 IN Outcome("new", source_connection(c, a.id), a.mixer)
        ELSE IF client_type \in {"client_type_sink", "client_type_raw_sink"} THEN
            LET a == mixer_add_sink(mx)
            IN Outcome("new",
                       sink_connection(c, client_type = "client_type_raw_sink",
                                       a.id),
                       a.mixer)
        ELSE Outcome("null", c, mx)

unknown_handle_complete_receive(c, throws, mx) ==
    LET client_type ==
            IF Take(c.greeting_, GREETING_SIZE) = GREETING_SOURCE
            THEN "client_type_source"
            ELSE IF Take(c.greeting_, GREETING_SIZE) = GREETING_SINK
            THEN "client_type_sink"
            ELSE IF Take(c.greeting_, GREETING_SIZE) = GREETING_RAW_SINK
            THEN "client_type_raw_sink"
            ELSE "client_type_unknown"
    IN  IF client_type = "client_type_source" THEN
            IF throws THEN Outcome("throw", c, mx)
            ELSE LET a == mixer_add_source(mx)
                 IN Outcome("new", source_connection(c, a.id), a.mixer)
        ELSE IF client_type \in {"client_type_sink", "client_type_raw_sink"} THEN
            LET a == mixer_add_sink(mx)
            IN Outcome("new",
                       sink_connection(c, client_type = "client_type_raw_sink",
                                       a.id),
                       a.mixer)
        ELSE Outcome("null", c, mx)

source_handle_complete_receive(c, throws, mx) ==
    IF c.first_sequence_ THEN
        LET system == dv_parse_header(c.frame_.buffer)
        IN  IF system # "fail"
            THEN Outcome("this",
                         [c EXCEPT !.frame_.system = system,
                                   !.frame_.size = decoder_frame_size(system),
                                   !.first_sequence_ = FALSE],
                         mx)
            ELSE Outcome("null", c, mx)
    ELSE
        LET put == [c EXCEPT !.published =
                        Append(@, FrameBytes(c.frame_.buffer, c.frame_.size))]
        IN  IF throws
            THEN Outcome("throw", put, mixer_put_frame(mx, c.source_id_))
            ELSE Outcome("this",
                         [put EXCEPT !.frame_ = allocate_frame,
                                     !.first_sequence_ = TRUE],
                         mixer_put_frame(mx, c.source_id_))

sink_handle_complete_receive(c, throws, mx) == Outcome("null", c, mx)

handle_complete_receive(c, throws, mx) ==
    IF c.kind = "unknown" THEN unknown_handle_complete_receive(c, throws, mx)
    ELSE IF c.kind = "source" THEN source_handle_complete_receive(c, throws, mx)
    ELSE sink_handle_complete_receive(c, throws, mx)

EWOULDBLOCK == "EWOULDBLOCK"
ECONNRESET == "ECONNRESET"

\* The bytes read from c's socket so far.
Received(c) ==
    IF c.kind = "unknown"
    THEN Take(c.greeting_, Min(Len(c.greeting_), c.receive_buffer_.pointer))
    ELSE c.hello \o c.rx

\* The next n bytes a client that has sent Received(c) may deliver.
Incoming(c, n) ==
    LET sofar == Received(c)
        len == Len(sofar)
    IN { SubSeq(p, len + 1, len + n) :
            p \in { q \in Peers : Len(q) >= len + n /\ Take(q, len) = sofar } }

\* What read() on the socket may return: some bytes (at most the region's
\* size), 0, or -1 with errno.
ReadResults(c, size) ==
    { [size |-> Len(data), errno |-> "none", data |-> data] :
        data \in UNION { Incoming(c, n) : n \in 1..size } }
    \cup { [size |-> 0, errno |-> "none", data |-> <<>>] }
    \cup { [size |-> -1, errno |-> e, data |-> <<>>] :
              e \in {EWOULDBLOCK, ECONNRESET} }

\* read() stores the bytes at receive_buffer_.pointer: in greeting_ for an
\* unknown connection, in frame_->buffer for a source, in the dummy byte
\* for a sink.
StoreReceived(c, data) ==
    LET n == Len(data)
        stored ==
            IF c.kind = "unknown"
            THEN [c EXCEPT !.greeting_ =
                      WriteAt(@, c.receive_buffer_.pointer, data)]
            ELSE IF c.kind = "source"
            THEN [c EXCEPT !.frame_.buffer =
                      WriteAt(@, c.receive_buffer_.pointer, data),
                           !.rx = @ \o data]
            ELSE c
    IN [stored EXCEPT !.receive_buffer_.pointer = @ + n,
                      !.receive_buffer_.size = @ - n]

\* do_receive keeping the connection when read() returns 0.
do_receive_keeps_on_eof(c, rd, throws, mx) ==
    LET c0 == IF c.receive_buffer_.size = 0
              THEN [c EXCEPT !.receive_buffer_ = get_receive_buffer(c)]
              ELSE c
    IN  IF rd.size > 0 THEN
            LET c1 == StoreReceived(c0, rd.data)
            IN  IF c1.receive_buffer_.size = 0
                THEN handle_complete_receive(c1, throws, mx)
                ELSE Outcome("this", c1, mx)
        ELSE IF rd.size = 0 \/ (rd.size = -1 /\ rd.errno = EWOULDBLOCK)
        THEN Outcome("this", c0, mx)
        ELSE Outcome("null", c0, mx)

do_receive(c, rd, throws, mx) ==
    LET c0 == IF c.receive_buffer_.size = 0
              THEN [c EXCEPT !.receive_buffer_ = get_receive_buffer(c)]
              ELSE c
    IN  IF rd.size > 0 THEN
            LET c1 == StoreReceived(c0, rd.data)
            IN  IF c1.receive_buffer_.size = 0
                THEN handle_complete_receive(c1, throws, mx)
                ELSE Outcome("this", c1, mx)
        ELSE IF rd.size = -1 /\ rd.errno = EWOULDBLOCK
        THEN Outcome("this", c0, mx)
        ELSE Outcome("null", c0, mx)

\* The size read() is asked for by do_receive on connection c.
ReceiveSize(c) ==
    IF c.receive_buffer_.size = 0 THEN get_receive_buffer(c).size
    ELSE c.receive_buffer_.size

\* destroy with ~sink_connection leaving the sink registered.
destroy_keeps_sink(c, mx) ==
    IF c.kind = "source" THEN mixer_remove_source(mx, c.source_id_)
    ELSE mx

\* ~source_connection / ~sink_connection / ~connection.
destroy(c, mx) ==
    IF c.kind = "source" THEN mixer_remove_source(mx, c.source_id_)
    ELSE IF c.kind = "sink" THEN mixer_remove_sink(mx, c.sink_id_)
    ELSE mx

\* boost::mutex::scoped_lock on the sink's mutex_: constructed at lines 354
\* and 550, destroyed where its block is left (lines 356, 365, 368, 561).
scoped_lock(c, thread) == [c EXCEPT !.mutex_ = thread]

\* scoped_unlock that leaves the mutex held.
scoped_unlock_never(c) == c

scoped_unlock(c) == [c EXCEPT !.mutex_ = "free"]

(***************************************************************************)
(* sink_connection::put_frame, the part under mutex_ (lines 549-561).      *)
(* was_empty is remembered in put_pc: "wake" when the message to the       *)
(* event loop is still to be written.                                      *)
(***************************************************************************)
\* frames_full reporting a full queue one frame early.
frames_full_early(c) == Len(c.frames_) >= frames_capacity - 1

\* frames_full reporting a full queue one frame late.
frames_full_late(c) == Len(c.frames_) = frames_capacity + 1

frames_full(c) == Len(c.frames_) = frames_capacity

frames_empty(c) == Len(c.frames_) = 0

\* put_frame_locked with was_empty tested after the push.
put_frame_locked_late_test(c, frame) ==
    IF frames_full(c)
    THEN [c EXCEPT !.overflowed_ = TRUE, !.nput = @ + 1, !.put_pc = "idle"]
    ELSE [c EXCEPT !.frames_ = Append(@, frame),
                   !.pushed = Append(@, frame),
                   !.nput = @ + 1,
                   !.put_pc = IF Len(c.frames_) + 1 = 0 THEN "wake" ELSE "idle"]

put_frame_locked(c, frame) ==
    IF frames_full(c)
    THEN [c EXCEPT !.overflowed_ = TRUE, !.nput = @ + 1, !.put_pc = "idle"]
    ELSE [c EXCEPT !.frames_ = Append(@, frame),
                   !.pushed = Append(@, frame),
                   !.nput = @ + 1,
                   !.put_pc = IF frames_empty(c) THEN "wake" ELSE "idle"]

(***************************************************************************)
(* sink_connection::do_send.  Its locals are the record                    *)
(* [result, finished_frame, frame]; `at` is where it goes next.  observed  *)
(* is history: what the last block under mutex_ found ("overflowed",       *)
(* "empty", or "front" when it took the front frame).                      *)
(***************************************************************************)
NoSend == [result |-> send_failed, finished_frame |-> FALSE, frame |-> NoFrame,
           observed |-> "none"]

\* send_locked with the finished frame left on the queue (no frames_.pop()).
send_locked_no_pop(c, s) ==
    IF c.overflowed_
    THEN [conn |-> c, send |-> [s EXCEPT !.observed = "overflowed"],
          at |-> "send_return"]
    ELSE LET s1 == [s EXCEPT !.finished_frame = FALSE]
         IN  IF frames_empty(c)
             THEN [conn |-> c,
                   send |-> [s1 EXCEPT !.result = sent_all,
                                       !.observed = "empty"],
                   at |-> "send_return"]
             ELSE [conn |-> c,
                   send |-> [s1 EXCEPT !.frame = Head(c.frames_),
                                       !.observed = "front"],
                   at |-> "send_write"]

\* send_locked popping the finished frame before it looks at overflowed_.
send_locked_pop_first(c, s) ==
    LET c1 == IF s.finished_frame
              THEN [c EXCEPT !.frames_ = Tail(@)] ELSE c
    IN  IF c.overflowed_
        THEN [conn |-> c1, send |-> [s EXCEPT !.observed = "overflowed"],
              at |-> "send_return"]
        ELSE LET s1 == [s EXCEPT !.finished_frame = FALSE]
             IN  IF frames_empty(c1)
                 THEN [conn |-> c1,
                       send |-> [s1 EXCEPT !.result = sent_all,
                                           !.observed = "empty"],
                       at |-> "send_return"]
                 ELSE [conn |-> c1,
                       send |-> [s1 EXCEPT !.frame = Head(c1.frames_),
                                           !.observed = "front"],
                       at |-> "send_write"]

\* Lines 353-368: the block under mutex_.
send_locked(c, s) ==
    IF c.overflowed_
    THEN [conn |-> c, send |-> [s EXCEPT !.observed = "overflowed"],
          at |-> "send_return"]
    ELSE LET c1 == IF s.finished_frame
                   THEN [c EXCEPT !.frames_ = Tail(@)] ELSE c
             s1 == [s EXCEPT !.finished_frame = FALSE]
         IN  IF frames_empty(c1)
             THEN [conn |-> c1,
                   send |-> [s1 EXCEPT !.result = sent_all,
                                       !.observed = "empty"],
                   at |-> "send_return"]
             ELSE [conn |-> c1,
                   send |-> [s1 EXCEPT !.frame = Head(c1.frames_),
                                       !.observed = "front"],
                   at |-> "send_write"]

\* frame_header with the cut flag set whether or not the frame begins a cut.
frame_header_always_cut(is_raw, frame) ==
    [j \in 1..SINK_FRAME_HEADER_SIZE |->
        Byte(0, j - 1,
             IF ~is_raw /\ j - 1 = SINK_FRAME_CUT_FLAG_POS THEN 67 ELSE 0)]

\* Lines 370-376.
frame_header(is_raw, frame) ==
    [j \in 1..SINK_FRAME_HEADER_SIZE |->
        Byte(0, j - 1,
             IF ~is_raw /\ j - 1 = SINK_FRAME_CUT_FLAG_POS /\ frame.cut_before
             THEN 67 ELSE 0)]

\* Lines 377-380.
io_vector(is_raw, frame) ==
    << [iov_base |-> frame_header(is_raw, frame),
        iov_len |-> SINK_FRAME_HEADER_SIZE],
       [iov_base |-> FrameBuffer(frame), iov_len |-> frame.size] >>

\* Lines 383-387; the vector is indexed from 0 in the code, from 1 here.
RECURSIVE skip_done(_, _, _)
skip_done(iov, done_count, rel_pos) ==
    IF done_count < 2 /\ rel_pos >= iov[done_count + 1].iov_len
    THEN skip_done(iov, done_count + 1, rel_pos - iov[done_count + 1].iov_len)
    ELSE [done_count |-> done_count, rel_pos |-> rel_pos]

\* Lines 381-394: the bytes writev is offered, in order.
writev_bytes(c, frame) ==
    LET iov == io_vector(c.is_raw_, frame)
        at == skip_done(iov, IF c.is_raw_ THEN 1 ELSE 0, c.frame_pos_)
    IN  IF at.done_count = 0
        THEN Drop(iov[1].iov_base, at.rel_pos) \o iov[2].iov_base
        ELSE IF at.done_count = 1 THEN Drop(iov[2].iov_base, at.rel_pos)
        ELSE <<>>

WritevResults(bytes) ==
    { [size |-> n, errno |-> "none"] : n \in 1..Len(bytes) }
    \cup { [size |-> -1, errno |-> e] : e \in {EWOULDBLOCK, ECONNRESET} }

frame_total(c, frame) ==
    (IF c.is_raw_ THEN 0 ELSE SINK_FRAME_HEADER_SIZE) + frame.size

\* send_written reporting sent_all when writev would block.
send_written_all_on_block(c, s, wr) ==
    IF wr.size > 0 THEN
        LET pos == c.frame_pos_ + wr.size
            done == pos = frame_total(c, s.frame)
            c1 == [c EXCEPT !.frame_pos_ = IF done THEN 0 ELSE pos,
                            !.wire = @ \o Take(writev_bytes(c, s.frame), wr.size)]
        IN [conn |-> c1,
            send |-> [s EXCEPT !.finished_frame = done, !.result = sent_some],
            at |-> IF done THEN "send_lock" ELSE "send_return"]
    ELSE IF wr.size = -1 /\ wr.errno = EWOULDBLOCK
    THEN [conn |-> c, send |-> [s EXCEPT !.result = sent_all],
          at |-> "send_return"]
    ELSE [conn |-> c, send |-> s, at |-> "send_return"]

\* send_written leaving frame_pos_ at the end of a finished frame.
send_written_no_reset(c, s, wr) ==
    IF wr.size > 0 THEN
        LET pos == c.frame_pos_ + wr.size
            done == pos = frame_total(c, s.frame)
            c1 == [c EXCEPT !.frame_pos_ = pos,
                            !.wire = @ \o Take(writev_bytes(c, s.frame), wr.size)]
        IN [conn |-> c1,
            send |-> [s EXCEPT !.finished_frame = done, !.result = sent_some],
            at |-> IF done THEN "send_lock" ELSE "send_return"]
    ELSE IF wr.size = -1 /\ wr.errno = EWOULDBLOCK
    THEN [conn |-> c, send |-> [s EXCEPT !.result = sent_some],
          at |-> "send_return"]
    ELSE [conn |-> c, send |-> s, at |-> "send_return"]

\* Lines 392-411.
send_written(c, s, wr) ==
    IF wr.size > 0 THEN
        LET pos == c.frame_pos_ + wr.size
            done == pos = frame_total(c, s.frame)
            c1 == [c EXCEPT !.frame_pos_ = IF done THEN 0 ELSE pos,
                            !.wire = @ \o Take(writev_bytes(c, s.frame), wr.size)]
        IN [conn |-> c1,
            send |-> [s EXCEPT !.finished_frame = done, !.result = sent_some],
            at |-> IF done THEN "send_lock" ELSE "send_return"]
    ELSE IF wr.size = -1 /\ wr.errno = EWOULDBLOCK
    THEN [conn |-> c, send |-> [s EXCEPT !.result = sent_some],
          at |-> "send_return"]
    ELSE [conn |-> c, send |-> s, at |-> "send_return"]

(***************************************************************************)
(* State.                                                                  *)
(***************************************************************************)
VARIABLES
    pc,             \* where serve() is
    i,              \* the index of the client loop (from 1)
    connections,    \* std::vector<connection *> connections
    poll_fds,       \* poll_fds[2 + i]: [fd, events, polled]
    wake_revents,   \* poll_fds[0].revents & POLLIN
    message_pipe_,  \* the messages written and not yet read
    send,           \* the locals of the do_send in progress
    mixer,          \* the mixer's identities and call counts
    quit_sent,      \* ~server has written the quit message
    budget          \* what the environment may still do

vars == <<pc, i, connections, poll_fds, wake_revents, message_pipe_, send,
          mixer, quit_sent, budget>>

\* What the environment may do in a run: connections it opens, frames the
\* mixer hands to sinks, of which frames that begin a cut, and whether the
\* server object is destroyed.  accepted counts the connections so far.
Budgets ==
    { [accepts |-> MaxAccepts, puts |-> FewPuts, cuts |-> 0,
       quits |-> 1, accepted |-> 0],
      [accepts |-> 1, puts |-> MaxPuts, cuts |-> MaxCutFrames,
       quits |-> 1, accepted |-> 0],
      [accepts |-> 1, puts |-> frames_capacity + ExtraPuts, cuts |-> 0,
       quits |-> 0, accepted |-> 0] }

\* The state when serve() reaches its loop (lines 149-154).
Constructed ==
    /\ pc = "poll"
    /\ i = 1
    /\ connections = <<>>
    /\ poll_fds = <<>>
    /\ wake_revents = FALSE
    /\ message_pipe_ = <<>>
    /\ send = NoSend
    /\ mixer = mixer_new
    /\ quit_sent = FALSE

Init == Constructed /\ budget \in Budgets

\* A single client.
InitOne == Constructed /\ budget \in { b \in Budgets : b.accepts = 1 }

\* Runs in which the server object is destroyed.
InitQuit == Constructed /\ budget \in { b \in Budgets : b.quits > 0 }

\* A single client, in runs in which the server object is destroyed.
InitOneQuit ==
    Constructed /\ budget \in { b \in Budgets : b.accepts = 1 /\ b.quits > 0 }

Remove(s, j) == SubSeq(s, 1, j - 1) \o SubSeq(s, j + 1, Len(s))

\* The flags poll() may have set in a slot's revents: among those asked
\* for, POLLHUP and POLLERR; none in a slot added after poll() returned.
\* polled holds the events poll() was called with, from poll() until the
\* client loop has looked at the slot's revents ({} otherwise).
Revents(p) ==
    IF p.polled = {} THEN {{}} ELSE SUBSET (p.polled \cup {POLLHUP, POLLERR})

FreeFd(used) == CHOOSE fd \in 1..(Cardinality(used) + 1) :
                    fd \notin used /\ \A j \in 1..(fd - 1) : j \in used

LiveFds == { poll_fds[j].fd : j \in 1..Len(poll_fds) }

(***************************************************************************)
(* server::serve, lines 156-166: poll().                                   *)
(***************************************************************************)
Poll ==
    /\ pc = "poll"
    /\ pc' = "messages"
    /\ wake_revents' = (message_pipe_ # <<>>)
    /\ poll_fds' = [j \in 1..Len(poll_fds) |->
                       [poll_fds[j] EXCEPT !.polled = poll_fds[j].events]]
    /\ UNCHANGED <<i, connections, message_pipe_, send, mixer, quit_sent, budget>>

PollError ==
    /\ pc = "poll"
    /\ pc' = "exit"
    /\ UNCHANGED <<i, connections, poll_fds, wake_revents, message_pipe_, send,
                   mixer, quit_sent, budget>>

(***************************************************************************)
(* Lines 169-195: the message pipe.                                        *)
(***************************************************************************)
\* enable_output that sets write-interest on no slot.
enable_output_never(fds, fd, j) == fds

\* Lines 185-192.
RECURSIVE enable_output(_, _, _)
enable_output(fds, fd, j) ==
    IF j > Len(fds) THEN fds
    ELSE IF fds[j].fd = fd
    THEN [fds EXCEPT ![j].events = @ \cup {POLLOUT}]
    ELSE enable_output(fds, fd, j + 1)

\* handle_messages taking -1 for the number of an fd.
handle_messages_no_quit(fds, messages) ==
    [poll_fds |->
        [k \in 1..Len(fds) |->
            IF \E m \in 1..Len(messages) :
                  POLLOUT \in enable_output(fds, messages[m].fd, 1)[k].events
            THEN [fds[k] EXCEPT !.events = @ \cup {POLLOUT}]
            ELSE fds[k]],
     quit |-> FALSE]

\* Lines 176-193: the messages before the first -1 are handled in order,
\* each by the loop of lines 185-192; what they do to poll_fds does not
\* depend on their order.
handle_messages(fds, messages) ==
    LET quits == { m \in 1..Len(messages) : messages[m].fd = -1 }
        n == IF quits = {} THEN Len(messages)
             ELSE (CHOOSE m \in quits : \A q \in quits : m <= q) - 1
    IN  [poll_fds |->
            [k \in 1..Len(fds) |->
                IF \E m \in 1..n :
                      POLLOUT \in enable_output(fds, messages[m].fd, 1)[k].events
                THEN [fds[k] EXCEPT !.events = @ \cup {POLLOUT}]
                ELSE fds[k]],
         quit |-> quits # {}]

ReadMessages ==
    /\ pc = "messages"
    /\ IF wake_revents
       THEN LET size == Min(Len(message_pipe_), messages_size)
                h == handle_messages(poll_fds, Take(message_pipe_, size))
            IN /\ message_pipe_' = Drop(message_pipe_, size)
               /\ poll_fds' = h.poll_fds
               /\ pc' = IF h.quit THEN "exit" ELSE "accept"
       ELSE /\ pc' = "accept"
            /\ UNCHANGED <<message_pipe_, poll_fds>>
    /\ wake_revents' = FALSE
    /\ UNCHANGED <<i, connections, send, mixer, quit_sent, budget>>

(***************************************************************************)
(* Lines 198-210: the listening socket.                                    *)
(***************************************************************************)
AcceptNone ==
    /\ pc = "accept"
    /\ pc' = "clients"
    /\ i' = 1
    /\ UNCHANGED <<connections, poll_fds, wake_revents, message_pipe_, send,
                   mixer, quit_sent, budget>>

AcceptNew ==
    /\ pc = "accept"
    /\ budget.accepts > 0
    /\ LET conn_socket == FreeFd(LiveFds)
            cid == budget.accepted + 1
        IN /\ connections' =
                 Append(connections, unknown_connection(cid, conn_socket))
           /\ poll_fds' = Append(poll_fds, [fd |-> conn_socket,
                                            events |-> {POLLIN},
                                            polled |-> {}])
    /\ budget' = [budget EXCEPT !.accepts = @ - 1, !.accepted = @ + 1]
    /\ pc' = "clients"
    /\ i' = 1
    /\ UNCHANGED <<wake_revents, message_pipe_, send, mixer, quit_sent>>

(***************************************************************************)
(* Lines 213-268: the client connections.                                  *)
(***************************************************************************)
\* remove_sink() returns only once the mixer thread is outside put_frame
\* on that sink, so the destructor waits for it.
MixerOutside(c) == c.put_pc = "idle"

\* Lines 258-263: delete connections[i] and erase both vector entries.
DropConnection(j) ==
    /\ MixerOutside(connections[j])
    /\ mixer' = destroy(connections[j], mixer)
    /\ connections' = Remove(connections, j)
    /\ poll_fds' = Remove(poll_fds, j)

ClientsDone ==
    /\ pc = "clients"
    /\ i > Len(connections)
    /\ pc' = "poll"
    /\ i' = 1
    /\ UNCHANGED <<connections, poll_fds, wake_revents, message_pipe_, send,
                   mixer, quit_sent, budget>>

\* dispatch looking at POLLIN before POLLHUP and POLLERR.
dispatch_input_first(revents) ==
    IF POLLIN \in revents THEN "receive"
    ELSE IF revents \cap {POLLHUP, POLLERR} # {} THEN "drop"
    ELSE IF POLLOUT \in revents THEN "send"
    ELSE "none"

\* Lines 215-250: what the loop does with a slot, by the slot's revents.
dispatch(revents) ==
    IF revents \cap {POLLHUP, POLLERR} # {} THEN "drop"
    ELSE IF POLLIN \in revents THEN "receive"
    ELSE IF POLLOUT \in revents THEN "send"
    ELSE "none"

\* Lines 219-222.
ClientHangup ==
    /\ pc = "clients"
    /\ i <= Len(connections)
    /\ \E revents \in Revents(poll_fds[i]) : dispatch(revents) = "drop"
    /\ DropConnection(i)
    /\ UNCHANGED <<pc, i, wake_revents, message_pipe_, send, quit_sent, budget>>

\* Lines 223-236, and 252-256 when do_receive throws.
ClientReceive ==
    /\ pc = "clients"
    /\ i <= Len(connections)
    /\ \E revents \in Revents(poll_fds[i]) : dispatch(revents) = "receive"
    /\ \E rd \in ReadResults(connections[i], ReceiveSize(connections[i])),
          throws \in BOOLEAN :
        LET r == do_receive(connections[i], rd, throws, mixer)
        IN  IF r.result \in {"null", "throw"}
            THEN /\ MixerOutside(connections[i])
                 /\ mixer' = destroy(r.conn, r.mixer)
                 /\ connections' = Remove(connections, i)
                 /\ poll_fds' = Remove(poll_fds, i)
                 /\ i' = i
            ELSE /\ mixer' = r.mixer
                 /\ connections' = [connections EXCEPT ![i] = r.conn]
                 /\ poll_fds' = [poll_fds EXCEPT ![i].polled = {}]
                 /\ i' = i + 1
    /\ UNCHANGED <<pc, wake_revents, message_pipe_, send, quit_sent, budget>>

\* Lines 237-239: do_send is entered.  A connection that is no sink has
\* connection::do_send, which returns send_failed (line 42).
ClientSend ==
    /\ pc = "clients"
    /\ i <= Len(connections)
    /\ \E revents \in Revents(poll_fds[i]) : dispatch(revents) = "send"
    /\ IF connections[i].kind = "sink"
       THEN /\ pc' = "send_lock"
            /\ send' = NoSend
            /\ UNCHANGED <<i, connections, poll_fds, mixer>>
       ELSE /\ DropConnection(i)
            /\ UNCHANGED <<pc, i, send>>
    /\ UNCHANGED <<wake_revents, message_pipe_, quit_sent, budget>>

\* No flag the loop looks at is set: ++i.
ClientIdle ==
    /\ pc = "clients"
    /\ i <= Len(connections)
    /\ \E revents \in Revents(poll_fds[i]) : dispatch(revents) = "none"
    /\ i' = i + 1
    /\ poll_fds' = [poll_fds EXCEPT ![i].polled = {}]
    /\ UNCHANGED <<pc, connections, wake_revents, message_pipe_, send,
                   mixer, quit_sent, budget>>

\* do_send, lines 352-354: the mutex is taken.
SendAcquire ==
    /\ pc = "send_lock"
    /\ connections[i].mutex_ = "free"
    /\ connections' = [connections EXCEPT ![i] = scoped_lock(@, "loop")]
    /\ pc' = "send_locked"
    /\ UNCHANGED <<i, poll_fds, wake_revents, message_pipe_, send, mixer,
                   quit_sent, budget>>

\* do_send, lines 355-368: the block under the mutex, and its release.
SendLock ==
    /\ pc = "send_locked"
    /\ LET r == send_locked(connections[i], send)
       IN /\ connections' = [connections EXCEPT ![i] = scoped_unlock(r.conn)]
          /\ send' = r.send
          /\ pc' = r.at
    /\ UNCHANGED <<i, poll_fds, wake_revents, message_pipe_, mixer, quit_sent,
                   budget>>

\* do_send, lines 370-411.
SendWrite ==
    /\ pc = "send_write"
    /\ \E wr \in WritevResults(writev_bytes(connections[i], send.frame)) :
        LET r == send_written(connections[i], send, wr)
        IN /\ connections' = [connections EXCEPT ![i] = r.conn]
           /\ send' = r.send
           /\ pc' = r.at
    /\ UNCHANGED <<i, poll_fds, wake_revents, message_pipe_, mixer, quit_sent,
                   budget>>

\* do_send returns; lines 239-249 and 258-267.
SendReturn ==
    /\ pc = "send_return"
    /\ pc' = "clients"
    /\ send' = NoSend
    /\ IF send.result = send_failed
       THEN /\ DropConnection(i)
            /\ i' = i
       ELSE /\ poll_fds' = IF send.result = sent_all
                           THEN [poll_fds EXCEPT ![i].events = @ \ {POLLOUT},
                                                 ![i].polled = {}]
                           ELSE [poll_fds EXCEPT ![i].polled = {}]
            /\ i' = i + 1
            /\ UNCHANGED <<connections, mixer>>
    /\ UNCHANGED <<wake_revents, message_pipe_, quit_sent, budget>>

(***************************************************************************)
(* Lines 271-276: on exit the remaining connections are deleted in order.  *)
(***************************************************************************)
ExitDelete ==
    /\ pc = "exit"
    /\ connections # <<>>
    /\ DropConnection(1)
    /\ UNCHANGED <<pc, i, wake_revents, message_pipe_, send, quit_sent, budget>>

ExitReturn ==
    /\ pc = "exit"
    /\ connections = <<>>
    /\ pc' = "done"
    /\ UNCHANGED <<i, connections, poll_fds, wake_revents, message_pipe_, send,
                   mixer, quit_sent, budget>>

(***************************************************************************)
(* The other threads.                                                      *)
(***************************************************************************)
\* The mixer thread calls put_frame on a registered sink and takes the
\* sink's mutex: lines 546-550.
PutAcquire ==
    /\ budget.puts > 0
    /\ \E k \in 1..Len(connections) :
        /\ connections[k].kind = "sink"
        /\ connections[k].put_pc = "idle"
        /\ connections[k].mutex_ = "free"
        /\ connections' = [connections EXCEPT
                              ![k] = [scoped_lock(@, "mixer") EXCEPT
                                         !.put_pc = "locked"]]
    /\ budget' = [budget EXCEPT !.puts = @ - 1]
    /\ UNCHANGED <<pc, i, poll_fds, wake_revents, message_pipe_, send, mixer,
                   quit_sent>>

\* put_frame, lines 551-561: the block under the mutex, and its release.
PutFrame ==
    /\ \E k \in 1..Len(connections) :
        /\ connections[k].put_pc = "locked"
        /\ \E cut \in (IF budget.cuts > 0 THEN BOOLEAN ELSE {FALSE}) :
            /\ connections' =
                 [connections EXCEPT ![k] =
                     scoped_unlock(
                       put_frame_locked(@, MixedFrame(connections[k].nput + 1,
                                                      cut)))]
            /\ budget' = [budget EXCEPT !.cuts = IF cut THEN @ - 1 ELSE @]
    /\ UNCHANGED <<pc, i, poll_fds, wake_revents, message_pipe_, send, mixer,
                   quit_sent>>

\* Lines 562-563 and server::enable_output_polling, lines 278-283.
EnableOutputPolling ==
    /\ \E k \in 1..Len(connections) :
        /\ connections[k].put_pc = "wake"
        /\ message_pipe_' = Append(message_pipe_,
                                   [fd |-> connections[k].socket_,
                                    from |-> connections[k].cid])
        /\ connections' = [connections EXCEPT ![k].put_pc = "idle"]
    /\ UNCHANGED <<pc, i, poll_fds, wake_revents, send, mixer, quit_sent, budget>>

\* server::~server, lines 140-145: the quit message.
Quit ==
    /\ budget.quits > 0
    /\ pc # "done"
    /\ quit_sent' = TRUE
    /\ budget' = [budget EXCEPT !.quits = @ - 1]
    /\ message_pipe_' = Append(message_pipe_, [fd |-> -1, from |-> 0])
    /\ UNCHANGED <<pc, i, connections, poll_fds, wake_revents, send, mixer>>

EventLoop ==
    \/ Poll
    \/ PollError
    \/ ReadMessages
    \/ AcceptNone
    \/ AcceptNew
    \/ ClientsDone
    \/ ClientHangup
    \/ ClientReceive
    \/ ClientSend
    \/ ClientIdle
    \/ SendAcquire
    \/ SendLock
    \/ SendWrite
    \/ SendReturn
    \/ ExitDelete
    \/ ExitReturn

Next ==
    \/ EventLoop
    \/ PutAcquire
    \/ PutFrame
    \/ EnableOutputPolling
    \/ Quit

Spec == Init /\ [][Next]_vars

SpecOne == InitOne /\ [][Next]_vars

\* The event-loop thread keeps running, and a mixer thread that is inside
\* put_frame finishes the call.
FairSpec ==
    /\ InitQuit
    /\ [][Next]_vars
    /\ WF_vars(EventLoop)
    /\ WF_vars(PutFrame)
    /\ WF_vars(EnableOutputPolling)

\* do_send is entered for the connection with identity cid: poll() has
\* reported its socket writable, and nothing else.
ClientSendOn(cid) ==
    /\ ClientSend
    /\ i <= Len(connections)
    /\ connections[i].cid = cid

\* writev takes at least one byte from the connection with identity cid.
SendWriteSome(cid) ==
    /\ SendWrite
    /\ connections[i].cid = cid
    /\ Len(connections'[i].wire) > Len(connections[i].wire)

\* FairSpec with sockets that keep becoming writable: a connection that
\* asks for POLLOUT again and again is reported writable in the end, and a
\* writev that is tried again and again takes some bytes in the end.
FairSendSpec ==
    /\ InitOneQuit
    /\ [][Next]_vars
    /\ WF_vars(EventLoop)
    /\ WF_vars(PutFrame)
    /\ WF_vars(EnableOutputPolling)
    /\ \A cid \in 1..MaxAccepts :
          SF_vars(ClientSendOn(cid)) /\ SF_vars(SendWriteSome(cid))

(***************************************************************************)
(* A state serve() is in after a burst.  A first client, on fd 1, was      *)
(* dropped before it had greeted; messages_size sinks were accepted on fds *)
(* 2, 3, ... and one more, the last slot and the last registered with the  *)
(* mixer, on the freed fd 1.  After a poll() that found the pipe empty the *)
(* mixer pushed a frame on the empty queue of each sink, in the order they *)
(* were registered, and each put_frame wrote its enable-output message; in *)
(* that iteration's client loop all sinks reported POLLHUP and were        *)
(* deleted.  The event loop is back at poll(), no connection is left and   *)
(* the messages are unread.                                                *)
(***************************************************************************)
BurstSinks == messages_size + 1

AfterBurst ==
    /\ pc = "poll"
    /\ i = 1
    /\ connections = <<>>
    /\ poll_fds = <<>>
    /\ wake_revents = FALSE
    /\ message_pipe_ = [k \in 1..BurstSinks |->
                           IF k < BurstSinks
                           THEN [fd |-> k + 1, from |-> k + 1]
                           ELSE [fd |-> 1, from |-> BurstSinks + 1]]
    /\ send = NoSend
    /\ mixer = [mixer_new EXCEPT !.add_sink = BurstSinks,
                                 !.remove_sink = BurstSinks]
    /\ quit_sent = FALSE
    /\ budget \in { [b EXCEPT !.accepted = BurstSinks + 1] :
                      b \in { x \in Budgets : x.accepts = 1 /\ x.quits > 0 } }

SpecBurst == AfterBurst /\ [][Next]_vars

(***************************************************************************)
(* Properties.                                                             *)
(***************************************************************************)
Slots == 1..Len(connections)

Sinks == { j \in Slots : connections[j].kind = "sink" }

Sources == { j \in Slots : connections[j].kind = "source" }

LiveCids == { connections[j].cid : j \in Slots }

\* The slots of the next state that hold connection cid.
SlotsAfter(cid) ==
    { k \in 1..Len(connections') : connections'[k].cid = cid }

\* The wire format of one frame, from the protocol's description: for a
\* cooked sink a header of zeros with 'C' at the cut flag's position when
\* the frame begins a cut, then the body; for a raw sink the body.
WireEncoding(is_raw, frame) ==
    (IF is_raw THEN <<>>
     ELSE [j \in 1..SINK_FRAME_HEADER_SIZE |->
              Byte(0, j - 1,
                   IF j = SINK_FRAME_CUT_FLAG_POS + 1 /\ frame.cut_before
                   THEN 67 ELSE 0)])
    \o [j \in 1..frame.size |-> Byte(frame.id, j - 1, 0)]

RECURSIVE WireStream(_, _)
WireStream(is_raw, frames) ==
    IF frames = <<>> THEN <<>>
    ELSE WireEncoding(is_raw, Head(frames)) \o WireStream(is_raw, Tail(frames))

IsPrefix(s, t) == Len(s) <= Len(t) /\ s = Take(t, Len(s))

\* C1: for every sink, the bytes written to its socket so far are a prefix
\* of the concatenation, in push order, of the wire encodings of the frames
\* put_frame pushed on its queue (header then body for a cooked sink, the
\* body alone for a raw sink): no frame is skipped, repeated or reordered.
C1_WireIsPrefixOfPushed ==
    \A j \in Sinks :
        IsPrefix(connections[j].wire,
                 WireStream(connections[j].is_raw_, connections[j].pushed))

\* A cooked sink that has written its first frame in several writes and is
\* in the middle of its second frame.
C1_Witness ==
    \E j \in Sinks :
        /\ ~connections[j].is_raw_
        /\ Len(connections[j].pushed) >= 2
        /\ connections[j].frame_pos_ > 0
        /\ Len(connections[j].wire) >
              SINK_FRAME_HEADER_SIZE + connections[j].pushed[1].size

\* The complete DV frames in the bytes rx read from a source, in order:
\* each begins with a DIF sequence whose header gives the frame's size.
RECURSIVE CompleteFrames(_)
CompleteFrames(rx) ==
    IF Len(rx) < DifSequenceSize THEN <<>>
    ELSE LET system == dv_parse_header(Take(rx, DifSequenceSize))
         IN  IF system = "fail" \/ Len(rx) < decoder_frame_size(system)
             THEN <<>>
             ELSE <<Take(rx, decoder_frame_size(system))>>
                  \o CompleteFrames(Drop(rx, decoder_frame_size(system)))

\* The frames a live source has handed to mixer.put_frame are the complete
\* frames it has received, in receive order, under its registered identity.
SourcePublishes ==
    /\ ~mixer.misuse
    /\ \A j \in Sources :
        /\ connections[j].published = CompleteFrames(connections[j].rx)
        /\ connections[j].source_id_ \in mixer.sources

\* A step that ends a source calls remove_source once, for its identity.
SourceRemovedOnce ==
    \A j \in Sources :
        SlotsAfter(connections[j].cid) = {} =>
            /\ mixer'.remove_source = mixer.remove_source + 1
            /\ mixer'.sources = mixer.sources \ {connections[j].source_id_}
            /\ ~mixer'.misuse

\* A step in which remove_source is called ends a source.
RemoveSourceEndsSource ==
    mixer'.remove_source # mixer.remove_source =>
        \E j \in Sources : SlotsAfter(connections[j].cid) = {}

\* C2: for every source, mixer.put_frame is called once per complete DV
\* frame received (first DIF sequence, then the remainder), in receive
\* order, and mixer.remove_source is called exactly once, when the source
\* ends, however it ends.
C2_SourceFramesThenRemove ==
    /\ []SourcePublishes
    /\ [][SourceRemovedOnce /\ RemoveSourceEndsSource]_vars

\* A source that has published two frames, the second one read in pieces.
C2_Witness ==
    \E j \in Sources :
        /\ Len(connections[j].published) = 2
        /\ mixer.remove_source = 0

\* The kind a greeting asks for.
Greeted(hello) ==
    IF hello = GREETING_SOURCE THEN "source"
    ELSE IF hello = GREETING_SINK THEN "cooked sink"
    ELSE IF hello = GREETING_RAW_SINK THEN "raw sink"
    ELSE "none"

KindOf(c) ==
    IF c.kind = "sink"
    THEN (IF c.is_raw_ THEN "raw sink" ELSE "cooked sink")
    ELSE c.kind

\* A connection whose greeting is not complete is Unknown and has no mixer
\* identity; any other connection is of the kind its greeting asked for
\* and holds a registered identity of that kind.
GreetingDecidesKind ==
    \A j \in Slots :
        LET c == connections[j]
        IN  IF c.kind = "unknown"
            THEN /\ Len(Received(c)) < GREETING_SIZE
                 /\ c.source_id_ = -1
                 /\ c.sink_id_ = -1
            ELSE /\ Len(c.hello) = GREETING_SIZE
                 /\ KindOf(c) = Greeted(c.hello)
                 /\ c.kind = "source" => c.source_id_ \in mixer.sources
                 /\ c.kind = "sink" => c.sink_id_ \in mixer.sinks

\* A step on an Unknown connection either leaves it Unknown, or replaces
\* it in its slot, on the same socket, with one call of add_source or
\* add_sink, or drops it with no call of add_source or add_sink.
GreetingStep ==
    \A j \in Slots :
        connections[j].kind = "unknown" =>
            LET after == SlotsAfter(connections[j].cid)
            IN  IF after = {}
                THEN /\ mixer'.add_source = mixer.add_source
                     /\ mixer'.add_sink = mixer.add_sink
                     /\ mixer'.sources = mixer.sources
                     /\ mixer'.sinks = mixer.sinks
                     /\ LiveFds' = LiveFds \ {connections[j].socket_}
                ELSE \A k \in after :
                        \/ connections'[k].kind = "unknown"
                        \/ /\ k = j
                           /\ connections'[k].socket_ = connections[j].socket_
                           /\ poll_fds'[k].fd = poll_fds[j].fd
                           /\ IF connections'[k].kind = "source"
                              THEN /\ mixer'.add_source = mixer.add_source + 1
                                   /\ mixer'.add_sink = mixer.add_sink
                              ELSE /\ mixer'.add_sink = mixer.add_sink + 1
                                   /\ mixer'.add_source = mixer.add_source

\* C3: once an accepted connection's 4 greeting bytes are complete, either
\* they are GREETING_SOURCE, GREETING_SINK or GREETING_RAW_SINK and the
\* slot holds a Source, cooked Sink or raw Sink connection respectively, or
\* the connection is dropped and closed without add_source or add_sink
\* having been called for it; so is a connection dropped before its
\* greeting is complete.
C3_GreetingDecidesKind ==
    /\ []GreetingDecidesKind
    /\ [][GreetingStep]_vars

\* A raw sink is live after the first client was dropped while Unknown:
\* one identity was allocated for two accepted connections.
C3_Witness ==
    /\ Len(connections) = 1
    /\ connections[1].kind = "sink"
    /\ connections[1].is_raw_
    /\ connections[1].cid = 2
    /\ budget.accepted = 2
    /\ mixer.add_source + mixer.add_sink = 1

\* For sink j, poll() is or will be asked for writability: write-interest
\* is set on its slot, or an enable-output message for its fd is unread in
\* the pipe, or the put_frame that found the queue empty is about to
\* write that message.
WakeupUnderWay(j) ==
    \/ POLLOUT \in poll_fds[j].events
    \/ \E m \in 1..Len(message_pipe_) :
          message_pipe_[m].fd = connections[j].socket_
    \/ connections[j].put_pc = "wake"

NoLostWakeup ==
    pc = "poll" =>
        \A j \in Sinks : connections[j].frames_ # <<>> => WakeupUnderWay(j)

\* A step that makes a sink's queue non-empty leaves put_frame about to
\* write the enable-output message.
EmptyToNonEmptyWakes ==
    \A j \in Sinks :
        connections[j].frames_ = <<>> =>
            \A k \in SlotsAfter(connections[j].cid) :
                connections'[k].frames_ # <<>> => connections'[k].put_pc = "wake"

\* C4: no wakeup is lost.  When a sink's queue goes from empty to
\* non-empty an enable-output message for its fd is sent, and whenever the
\* event loop calls poll() while a sink's queue is non-empty, write-interest
\* is set on the sink's slot, or the message is unread in the pipe, or the
\* put_frame that made the queue non-empty has yet to write it.
C4_NoLostWakeup ==
    /\ []NoLostWakeup
    /\ [][EmptyToNonEmptyWakes]_vars

\* The race: do_send has found the queue empty and is about to return
\* sent_all, which clears write-interest; meanwhile put_frame has pushed a
\* frame and written its message.
C4_Witness ==
    /\ pc = "send_return"
    /\ send.result = sent_all
    /\ connections[i].frames_ # <<>>
    /\ connections[i].put_pc = "idle"
    /\ POLLOUT \in poll_fds[i].events

\* C5: whenever do_send acquires the sink's mutex and finds overflowed
\* set, that call returns send_failed; also when the mutex is acquired
\* again after a frame was finished earlier in the same call.
C5_OverflowSeenMeansFailed ==
    (pc = "send_return" /\ send.observed = "overflowed")
        => send.result = send_failed

\* The effect of one put_frame call on a sink (the call is counted in nput).
PutFrameEffect ==
    \A j \in Sinks :
        \A k \in SlotsAfter(connections[j].cid) :
            LET c == connections[j]
                d == connections'[k]
            IN  d.nput = c.nput + 1 =>
                    IF Len(c.frames_) = frames_capacity
                    THEN /\ d.overflowed_
                         /\ d.frames_ = c.frames_
                         /\ d.pushed = c.pushed
                         /\ d.frame_pos_ = c.frame_pos_
                         /\ d.put_pc = "idle"
                         /\ message_pipe_' = message_pipe_
                    ELSE /\ Len(d.frames_) = Len(c.frames_) + 1
                         /\ Take(d.frames_, Len(c.frames_)) = c.frames_
                         /\ d.frames_[Len(d.frames_)].id = d.nput
                         /\ d.overflowed_ = c.overflowed_
                         /\ d.frame_pos_ = c.frame_pos_

\* overflowed needs more put_frame calls than the queue holds, and with no
\* frame popped it is set as soon as there was one call more.
LatchedByCallBeyondCapacity ==
    \A j \in Sinks :
        LET c == connections[j]
        IN /\ c.overflowed_ => c.nput > frames_capacity
           /\ (Len(c.pushed) = Len(c.frames_) /\ c.nput > frames_capacity)
                 => c.overflowed_

\* C6: put_frame on a sink whose queue is full (30 handles) sets
\* overflowed, discards the frame, leaves the queue and frame_pos as they
\* were and writes no wakeup message; on a queue that is not full it
\* appends the frame at the tail and leaves overflowed as it was.  So from
\* an empty queue with no pops overflowed is first set by the 31st call.
C6_PutFrameOnFullQueue ==
    /\ []LatchedByCallBeyondCapacity
    /\ [][PutFrameEffect]_vars

\* The 31st put_frame on a sink that has sent nothing has just latched
\* overflowed.
C6_Witness ==
    \E j \in Sinks :
        /\ connections[j].overflowed_
        /\ connections[j].nput = frames_capacity + 1
        /\ Len(connections[j].frames_) = frames_capacity
        /\ connections[j].wire = <<>>

\* Live sinks hold pairwise distinct identities, which are exactly those
\* registered with the mixer, and as many add_sink calls are unmatched by
\* a remove_sink as there are live sinks; likewise for sources.  When
\* serve() has returned nothing is left registered.
IdentitiesMatchConnections ==
    /\ ~mixer.misuse
    /\ \A j, k \in Sinks :
          connections[j].sink_id_ = connections[k].sink_id_ => j = k
    /\ \A j, k \in Sources :
          connections[j].source_id_ = connections[k].source_id_ => j = k
    /\ mixer.sinks = { connections[j].sink_id_ : j \in Sinks }
    /\ mixer.sources = { connections[j].source_id_ : j \in Sources }
    /\ mixer.add_sink - mixer.remove_sink = Cardinality(Sinks)
    /\ mixer.add_source - mixer.remove_source = Cardinality(Sources)
    /\ pc = "done" =>
          /\ connections = <<>>
          /\ mixer.add_sink = mixer.remove_sink
          /\ mixer.add_source = mixer.remove_source

\* A step that ends a sink calls remove_sink once, for its identity, and
\* remove_sink is called in no other step.
SinkRemovedOnce ==
    /\ \A j \in Sinks :
          SlotsAfter(connections[j].cid) = {} =>
              /\ mixer'.remove_sink = mixer.remove_sink + 1
              /\ mixer'.sinks = mixer.sinks \ {connections[j].sink_id_}
    /\ mixer'.remove_sink # mixer.remove_sink =>
          \E j \in Sinks : SlotsAfter(connections[j].cid) = {}

\* C7: mixer.remove_sink(sink_id) is called exactly once per add_sink, in
\* the step that destroys the sink, however the sink ends; no two live
\* connections hold the same mixer identity; and once serve() has returned
\* every add_source and add_sink is matched by one remove_source or
\* remove_sink.
C7_RemoveSinkOncePerAddSink ==
    /\ []IdentitiesMatchConnections
    /\ [][SinkRemovedOnce]_vars

\* Two sinks were live together (the second holds identity 1); the loop was
\* left and the first has been deleted.
C7_Witness ==
    /\ pc = "exit"
    /\ Len(connections) = 1
    /\ connections[1].kind = "sink"
    /\ connections[1].sink_id_ = 1
    /\ mixer.add_sink = 2
    /\ mixer.remove_sink = 1

QuitUnread == \E m \in 1..Len(message_pipe_) : message_pipe_[m].fd = -1

Returned ==
    /\ pc = "done"
    /\ connections = <<>>
    /\ mixer.sources = {}
    /\ mixer.sinks = {}

\* C8: once the quit message -1 is in the wakeup pipe the event loop, given
\* its share of the processor, leaves its loop whatever the connections
\* report, and serve() returns with every connection destroyed and no
\* source or sink left registered.
C8_QuitEndsLoop == quit_sent ~> Returned

\* The quit message was read while a source and a sink were live: the loop
\* has been left and both are still to be deleted.
C8_Witness ==
    /\ pc = "exit"
    /\ quit_sent
    /\ ~QuitUnread
    /\ Sources # {}
    /\ Sinks # {}

\* C9: reading an enable-output message written for a sink that has since
\* been dropped changes the polling interest of no live connection, also
\* when the dropped sink's fd number now belongs to a newly accepted
\* connection: a slot gains write-interest only through a message written
\* by the connection it holds.
C9_StaleMessageHarmless ==
    [][\A j \in Slots :
          \A k \in SlotsAfter(connections[j].cid) :
              (POLLOUT \in poll_fds'[k].events /\ POLLOUT \notin poll_fds[j].events)
                  => \E m \in 1..Len(message_pipe_) :
                        message_pipe_[m].from = connections[j].cid]_vars

\* What do_send returns, against what it last saw under mutex_.
SentAllIffEmptySeen ==
    pc = "send_return" => (send.result = sent_all <=> send.observed = "empty")

\* The event loop's reaction to the result of do_send on slot i, and the
\* only step that takes write-interest from a slot whose connection lives.
InterestClearedOnSentAll ==
    /\ (pc = "send_return" /\ pc' = "clients") =>
          /\ send.result = sent_all =>
                /\ POLLOUT \in poll_fds[i].events
                /\ poll_fds'[i].events = poll_fds[i].events \ {POLLOUT}
                /\ connections' = connections
          /\ send.result = sent_some =>
                /\ POLLOUT \in poll_fds[i].events
                /\ poll_fds'[i].events = poll_fds[i].events
                /\ connections' = connections
    /\ \A j \in Slots :
          \A k \in SlotsAfter(connections[j].cid) :
              (POLLOUT \in poll_fds[j].events /\ POLLOUT \notin poll_fds'[k].events)
                  => /\ pc = "send_return"
                     /\ pc' = "clients"
                     /\ i = j
                     /\ send.result = sent_all

\* C10: do_send returns sent_all exactly when, holding the mutex, it finds
\* the queue empty and overflowed not set; the event loop clears a slot's
\* write-interest only on a sent_all result for that slot, once, and leaves
\* it set after sent_some.
C10_SentAllClearsInterest ==
    /\ []SentAllIffEmptySeen
    /\ [][InterestClearedOnSentAll]_vars

\* A sink has written both frames pushed on its queue, do_send found the
\* queue empty and the loop has cleared the slot's write-interest.
C10_Witness ==
    \E j \in Sinks :
        /\ pc = "clients"
        /\ Len(connections[j].pushed) = 2
        /\ connections[j].frames_ = <<>>
        /\ connections[j].wire =
              WireStream(connections[j].is_raw_, connections[j].pushed)
        /\ POLLOUT \notin poll_fds[j].events
        /\ i > j

\* The queue never holds more than its capacity, and whenever do_send is
\* about to pop (it has finished a frame and takes the mutex again) the
\* queue is not empty and its front is the frame that was written.
QueueWithinCapacity ==
    /\ \A j \in Sinks : Len(connections[j].frames_) <= frames_capacity
    /\ (pc = "send_lock" /\ send.finished_frame) =>
          /\ connections[i].frames_ # <<>>
          /\ Head(connections[i].frames_) = send.frame

\* A step changes the length of a sink's queue by at most one; a push
\* happens on a queue that is not full, a pop on one that is not empty.
PushNotFullPopNotEmpty ==
    \A j \in Sinks :
        \A k \in SlotsAfter(connections[j].cid) :
            LET before == connections[j].frames_
                after == connections'[k].frames_
            IN  \/ after = before
                \/ /\ Len(before) < frames_capacity
                   /\ Len(after) = Len(before) + 1
                   /\ Take(after, Len(before)) = before
                \/ /\ Len(before) > 0
                   /\ after = Tail(before)

\* C11: a sink's queue holds at most 30 frame handles in every reachable
\* state, however put_frame calls interleave with do_send; push is only
\* executed on a queue that is not full, pop only on one that is not empty.
C11_QueueBounded ==
    /\ []QueueWithinCapacity
    /\ [][PushNotFullPopNotEmpty]_vars

\* The queue is full while do_send, having written the front frame, is
\* about to take the mutex again and pop it.
C11_Witness ==
    /\ pc = "send_lock"
    /\ send.finished_frame
    /\ Len(connections[i].frames_) = frames_capacity
    /\ ~connections[i].overflowed_

\* The region a do_receive on c reads into: the one in progress, or a new
\* one from get_receive_buffer when the last one is complete.
ReceiveRegion(c) ==
    IF c.receive_buffer_.size = 0 THEN get_receive_buffer(c)
    ELSE c.receive_buffer_

RECURSIVE TotalLen(_)
TotalLen(frames) ==
    IF frames = <<>> THEN 0 ELSE Len(Head(frames)) + TotalLen(Tail(frames))

\* What do_receive does on a live connection, for every result of read():
\* 0 bytes or an errno other than EWOULDBLOCK give null with the mixer and
\* the connection's fields untouched (handle_complete_receive not called);
\* EWOULDBLOCK gives this with the region as it was; fewer bytes than the
\* region still needs give this with the cursor moved by their number and
\* no frame published.
ReceiveByReadResult ==
    \A j \in Slots :
        LET c == connections[j]
            region == ReceiveRegion(c)
            untouched == [c EXCEPT !.receive_buffer_ = region]
        IN  \A rd \in ReadResults(c, ReceiveSize(c)), throws \in BOOLEAN :
                LET r == do_receive(c, rd, throws, mixer)
                IN  /\ (rd.size = 0 \/ (rd.size = -1 /\ rd.errno # EWOULDBLOCK))
                          => r = Outcome("null", untouched, mixer)
                    /\ (rd.size = -1 /\ rd.errno = EWOULDBLOCK)
                          => r = Outcome("this", untouched, mixer)
                    /\ (rd.size > 0 /\ rd.size < region.size)
                          => /\ r.result = "this"
                             /\ r.mixer = mixer
                             /\ r.conn.kind = c.kind
                             /\ r.conn.published = c.published
                             /\ r.conn.first_sequence_ = c.first_sequence_
                             /\ r.conn.receive_buffer_ =
                                   [pointer |-> region.pointer + rd.size,
                                    size |-> region.size - rd.size]
                    /\ (rd.size > 0 /\ r.conn.kind # c.kind)
                          => rd.size = region.size

\* A region is complete exactly when the bytes read into it add up to its
\* length: an Unknown connection has read pointer < 4 greeting bytes; a
\* source has read, beyond the frames it published, pointer bytes of the
\* frame in progress, less than the first sequence before the header is
\* parsed and less than the frame's size after.
RegionCompleteWhenFilled ==
    \A j \in Slots :
        LET c == connections[j]
            b == c.receive_buffer_
        IN  /\ c.kind = "unknown" =>
                /\ Len(Received(c)) = b.pointer
                /\ b.pointer < GREETING_SIZE
                /\ b.size > 0 => b.pointer + b.size = GREETING_SIZE
            /\ c.kind = "source" =>
                LET inframe == Len(c.rx) - TotalLen(c.published)
                IN  /\ inframe = IF b.size > 0 THEN b.pointer
                                 ELSE IF c.first_sequence_ THEN 0
                                 ELSE DifSequenceSize
                    /\ IF c.first_sequence_
                       THEN /\ inframe < DifSequenceSize
                            /\ b.size > 0 => b.pointer + b.size = DifSequenceSize
                       ELSE /\ inframe >= DifSequenceSize
                            /\ inframe < c.frame_.size
                            /\ b.size > 0 => b.pointer + b.size = c.frame_.size

\* C12: for a connection of any kind, a do_receive whose read() returns 0
\* or fails with an errno other than EWOULDBLOCK yields null (drop) without
\* handle_complete_receive being called; one whose read() fails with
\* EWOULDBLOCK keeps the connection with the cursor and remaining length
\* unchanged; a region completes exactly when the bytes read into it add
\* up to the length asked for.
C12_ReceiveOutcomes == ReceiveByReadResult /\ RegionCompleteWhenFilled

\* A source in the middle of the remainder of a frame: part of the region
\* is filled, part is still to come.
C12_Witness ==
    \E j \in Sources :
        /\ ~connections[j].first_sequence_
        /\ connections[j].receive_buffer_.size > 0
        /\ connections[j].receive_buffer_.pointer > DifSequenceSize

\* The length of every frame on the wire of sink c (the mixer's frames
\* all have MixFrameSize bytes).
WireFrameLength(c) ==
    (IF c.is_raw_ THEN 0 ELSE SINK_FRAME_HEADER_SIZE) + MixFrameSize

\* Byte by byte: the p-th byte written belongs to frame (p - 1) \div length
\* of those pushed, at offset (p - 1) % length.  On a cooked sink the first
\* SINK_FRAME_HEADER_SIZE offsets are header bytes (k = 0): 'C' at the cut
\* flag's position iff the frame begins a cut, zero elsewhere; all other
\* bytes, and every byte of a raw sink, are the body's bytes in order.
HeaderBytesOnWire ==
    \A j \in Sinks :
        LET c == connections[j]
            length == WireFrameLength(c)
            header == IF c.is_raw_ THEN 0 ELSE SINK_FRAME_HEADER_SIZE
        IN  \A p \in 1..Len(c.wire) :
                LET f == ((p - 1) \div length) + 1
                    o == (p - 1) % length
                IN  /\ f <= Len(c.pushed)
                    /\ c.pushed[f].size = MixFrameSize
                    /\ IF o < header
                       THEN /\ c.wire[p].k = 0
                            /\ c.wire[p].v =
                                  IF o = SINK_FRAME_CUT_FLAG_POS
                                     /\ c.pushed[f].cut_before
                                  THEN 67 ELSE 0
                       ELSE c.wire[p] = Byte(c.pushed[f].id, o - header, 0)

\* C13: every frame written to a cooked sink is preceded by
\* SINK_FRAME_HEADER_SIZE header bytes, all 0x00 except the byte at
\* SINK_FRAME_CUT_FLAG_POS, which is 'C' iff the frame's cut_before is
\* true; a raw sink gets no header byte and a frame takes exactly
\* frame.size bytes on its wire; also when the header is written in pieces.
C13_HeaderBytes == HeaderBytesOnWire

\* A cooked sink has written part of the header of a frame that begins a
\* cut: the rest of the header goes out in a later write.
C13_Witness ==
    \E j \in Sinks :
        /\ ~connections[j].is_raw_
        /\ connections[j].frame_pos_ > SINK_FRAME_CUT_FLAG_POS
        /\ connections[j].frame_pos_ < SINK_FRAME_HEADER_SIZE
        /\ connections[j].frames_ # <<>>
        /\ Head(connections[j].frames_).cut_before
        /\ Len(connections[j].wire) > SINK_FRAME_HEADER_SIZE

\* Each slot of poll_fds polls the socket of the connection in the same
\* slot of connections.
SlotsPollTheirSocket ==
    /\ Len(poll_fds) = Len(connections)
    /\ \A j \in Slots : poll_fds[j].fd = connections[j].socket_

\* The life of a connection, step by step: it appears at the end of the
\* vector as Unknown with POLLIN alone; while it lives it keeps its socket;
\* its kind changes only from Unknown, to Source or Sink, and then the new
\* object is in the same slot with the same fd and the same events; a
\* sink stays cooked or raw.
KindChangesOnce ==
    /\ \A k \in 1..Len(connections') :
          connections'[k].cid \notin LiveCids =>
              /\ k = Len(connections')
              /\ connections'[k].kind = "unknown"
              /\ poll_fds'[k].events = {POLLIN}
              /\ poll_fds'[k].fd = connections'[k].socket_
    /\ \A j \in Slots :
          \A k \in SlotsAfter(connections[j].cid) :
              LET c == connections[j]
                  d == connections'[k]
              IN  /\ d.socket_ = c.socket_
                  /\ poll_fds'[k].fd = poll_fds[j].fd
                  /\ c.kind # "unknown" => d.kind = c.kind
                  /\ c.kind = "sink" => d.is_raw_ = c.is_raw_
                  /\ d.kind # c.kind =>
                        /\ k = j
                        /\ d.kind \in {"source", "sink"}
                        /\ poll_fds'[k].events = poll_fds[j].events

\* C14: every connection is created Unknown with read-interest only,
\* changes kind at most once (Unknown to Source, cooked Sink or raw Sink)
\* and never again; the object that replaces the Unknown one is in the
\* same slot, and the slot keeps its socket descriptor and its polling
\* interest.
C14_KindChangesOnce ==
    /\ []SlotsPollTheirSocket
    /\ [][KindChangesOnce]_vars

\* Two connections have both changed kind, each in its own slot.
C14_Witness ==
    /\ Len(connections) = 2
    /\ connections[1].kind = "sink"
    /\ connections[2].kind = "source"
    /\ connections[1].cid = 1
    /\ connections[2].cid = 2

\* For every slot and every revents poll() may have reported in it: HUP or
\* ERR mean drop, whatever else is set; otherwise POLLIN means receive;
\* send is chosen exactly when POLLOUT is set and none of the others.  A
\* slot poll() has not seen (added after it returned, or looked at
\* already) has nothing done to it.
DispatchPriority ==
    \A j \in Slots :
        /\ \A revents \in Revents(poll_fds[j]) :
              /\ revents \cap {POLLHUP, POLLERR} # {}
                    => dispatch(revents) = "drop"
              /\ (revents \cap {POLLHUP, POLLERR} = {} /\ POLLIN \in revents)
                    => dispatch(revents) = "receive"
              /\ dispatch(revents) = "send"
                    <=> /\ POLLOUT \in revents
                        /\ POLLIN \notin revents
                        /\ revents \cap {POLLHUP, POLLERR} = {}
        /\ poll_fds[j].polled = {} =>
              \A revents \in Revents(poll_fds[j]) : dispatch(revents) = "none"
        /\ (pc \in {"clients", "send_lock", "send_locked", "send_write",
                   "send_return"}
            /\ j < i) => poll_fds[j].polled = {}
        /\ pc \in {"send_lock", "send_locked", "send_write", "send_return"} =>
              /\ i \in Slots
              /\ POLLOUT \in poll_fds[i].polled

\* The event loop has read from connection j, or replaced it, in this step.
ReceivedOn(j, k) ==
    \/ Received(connections'[k]) # Received(connections[j])
    \/ connections'[k].kind # connections[j].kind
    \/ connections'[k].receive_buffer_ # connections[j].receive_buffer_

\* In the client loop a step drops, reads from or starts do_send on slot i
\* alone, and only if poll() saw the slot in this iteration; reading needs
\* POLLIN and do_send POLLOUT among the events polled for.  A connection
\* that was read from is not looked at again before the next poll(), nor
\* is one whose do_send has returned.  Only poll() makes a slot seen.
OneOperationPerIteration ==
    /\ pc = "clients" =>
          \A j \in Slots :
              LET after == SlotsAfter(connections[j].cid)
              IN  /\ after = {} =>
                        /\ j = i
                        /\ poll_fds[i].polled # {}
                        /\ pc' = "clients"
                  /\ \A k \in after :
                        ReceivedOn(j, k) =>
                            /\ j = i
                            /\ POLLIN \in poll_fds[i].polled
                            /\ poll_fds'[k].polled = {}
                            /\ pc' = "clients"
                            /\ i' = i + 1
                  /\ (pc' = "send_lock" /\ j = i) =>
                        /\ POLLOUT \in poll_fds[i].polled
                        /\ connections' = connections
    /\ (pc = "send_return" /\ pc' = "clients") =>
          \A k \in SlotsAfter(connections[i].cid) :
              /\ poll_fds'[k].polled = {}
              /\ i' = k + 1
    /\ \A j \in Slots :
          \A k \in SlotsAfter(connections[j].cid) :
              (poll_fds[j].polled = {} /\ poll_fds'[k].polled # {})
                  => pc = "poll"
    /\ \A k \in 1..Len(connections') :
          connections'[k].cid \notin LiveCids => poll_fds'[k].polled = {}

\* C15: in one iteration of the event loop at most one of drop, do_receive
\* and do_send is performed on a connection, by strict priority: HUP or
\* ERR drop it whatever else is reported; otherwise POLLIN means do_receive
\* alone; do_send is called only when POLLOUT is reported and none of HUP,
\* ERR and POLLIN.  A connection accepted in the current iteration is not
\* operated on in that iteration.
C15_OneOperationByPriority ==
    /\ []DispatchPriority
    /\ [][OneOperationPerIteration]_vars

\* The client loop stands at a connection accepted in this iteration,
\* behind one that has been read from.
C15_Witness ==
    /\ pc = "clients"
    /\ Len(connections) = 2
    /\ i = 2
    /\ poll_fds[2].polled = {}
    /\ connections[2].kind = "unknown"
    /\ Received(connections[2]) = <<>>
    /\ Received(connections[1]) # <<>>
    /\ budget.accepts = 0

\* frame_pos_ is an offset inside the wire form of the front frame: it is
\* 0 when the queue is empty and below the frame's total length otherwise.
\* (It holds in every state, not only between calls of do_send: line 402
\* resets frame_pos_ in the statement that finishes the frame.)
FramePosInsideFront ==
    \A j \in Sinks :
        LET c == connections[j]
        IN  /\ c.frame_pos_ >= 0
            /\ c.frame_pos_ # 0 => c.frames_ # <<>>
            /\ c.frames_ # <<>> =>
                  c.frame_pos_ < frame_total(c, Head(c.frames_))

\* A step moves frame_pos_ exactly when writev accepted bytes: by their
\* number while that stays inside the front frame, to 0 when it reaches
\* the frame's total length.  put_frame does not touch it.
FramePosFollowsWrites ==
    \A j \in Sinks :
        \A k \in SlotsAfter(connections[j].cid) :
            LET c == connections[j]
                d == connections'[k]
                written == Len(d.wire) - Len(c.wire)
            IN  /\ written >= 0
                /\ written = 0 => d.frame_pos_ = c.frame_pos_
                /\ written > 0 =>
                      /\ c.frames_ # <<>>
                      /\ c.frame_pos_ + written
                            <= frame_total(c, Head(c.frames_))
                      /\ d.frame_pos_ =
                            IF c.frame_pos_ + written
                                  = frame_total(c, Head(c.frames_))
                            THEN 0 ELSE c.frame_pos_ + written
                /\ d.nput # c.nput => d.frame_pos_ = c.frame_pos_

\* C16: for every sink 0 <= frame_pos < (raw ? 0 : SINK_FRAME_HEADER_SIZE)
\* + size of the front frame, and frame_pos # 0 implies a non-empty queue;
\* within a frame frame_pos grows by exactly the bytes each write accepted,
\* it is reset to 0 exactly when it reaches the frame's total wire length,
\* and put_frame never modifies it.
C16_FramePos ==
    /\ []FramePosInsideFront
    /\ [][FramePosFollowsWrites]_vars

\* Between two calls of do_send a sink stands inside the body of its
\* second frame.
C16_Witness ==
    \E j \in Sinks :
        /\ pc = "poll"
        /\ ~connections[j].is_raw_
        /\ connections[j].frame_pos_ > SINK_FRAME_HEADER_SIZE
        /\ Len(connections[j].pushed) - Len(connections[j].frames_) = 1

\* A sink's mutex is held by the event loop exactly while do_send is in
\* its block of lines 355-368, and by the mixer thread exactly while
\* put_frame is in its block of lines 551-561.  So it is not held by the
\* event loop when do_send calls writev, nor by the mixer thread when
\* put_frame is about to write its message.
MutexHeldInBlocksOnly ==
    \A j \in Slots :
        LET c == connections[j]
        IN  /\ c.mutex_ = "loop" <=> (pc = "send_locked" /\ j = i)
            /\ c.mutex_ = "mixer" <=> c.put_pc = "locked"
            /\ (pc = "send_write" /\ j = i) => c.mutex_ # "loop"
            /\ c.put_pc = "wake" => c.mutex_ # "mixer"

\* The I/O itself: a step in which writev puts bytes on a sink's wire is
\* taken by the event loop without the sink's mutex, before and after; a
\* step that appends an enable-output message is taken by a put_frame
\* that is past its block, and ends the call.
NoIOUnderMutex ==
    /\ \A j \in Sinks :
          \A k \in SlotsAfter(connections[j].cid) :
              connections'[k].wire # connections[j].wire =>
                  /\ connections[j].mutex_ # "loop"
                  /\ connections'[k].mutex_ # "loop"
    /\ (Len(message_pipe_') > Len(message_pipe_)
        /\ message_pipe_'[Len(message_pipe_')].fd # -1) =>
          \E j \in Sinks :
              /\ message_pipe_'[Len(message_pipe_')].fd = connections[j].socket_
              /\ connections[j].put_pc = "wake"
              /\ connections[j].mutex_ # "mixer"
              /\ connections'[j].put_pc = "idle"
              /\ connections'[j].mutex_ # "mixer"

\* put_frame goes on to write the message exactly if its block pushed the
\* frame on an empty queue; once it is about to write, the call ends only
\* by writing one message (or with the loop's exit never, as the
\* destructor waits for the call).
MessageIffPushedOnEmpty ==
    \A j \in Sinks :
        \A k \in SlotsAfter(connections[j].cid) :
            LET c == connections[j]
                d == connections'[k]
            IN  /\ d.nput = c.nput + 1 =>
                      /\ c.put_pc = "locked"
                      /\ d.put_pc = IF c.frames_ = <<>> THEN "wake" ELSE "idle"
                /\ (c.put_pc = "wake" /\ d.put_pc # "wake") =>
                      /\ d.put_pc = "idle"
                      /\ message_pipe_' =
                            Append(message_pipe_,
                                   [fd |-> c.socket_, from |-> c.cid])
                /\ (c.put_pc # "wake" /\ d.put_pc = "wake") =>
                      d.nput = c.nput + 1

\* C17: a sink's mutex is never held while I/O is performed: do_send has
\* released it before it calls writev, and put_frame before it writes the
\* enable-output message to the pipe; put_frame writes that message if and
\* only if its push found the queue empty.
C17_NoIOUnderMutex ==
    /\ []MutexHeldInBlocksOnly
    /\ [][NoIOUnderMutex /\ MessageIffPushedOnEmpty]_vars

\* do_send is at its writev while the mixer thread holds the same sink's
\* mutex inside put_frame.
C17_Witness ==
    /\ pc = "send_write"
    /\ connections[i].mutex_ = "mixer"
    /\ connections[i].put_pc = "locked"
    /\ connections[i].frame_pos_ > 0

\* A sink with overflowed_ set has a full queue.
OverflowedQueueFull ==
    \A j \in Sinks :
        connections[j].overflowed_ =>
            Len(connections[j].frames_) = frames_capacity

\* While the sink lives no step clears overflowed_ or changes the queue of
\* a sink that has it set.
OverflowedStays ==
    \A j \in Sinks :
        \A k \in SlotsAfter(connections[j].cid) :
            connections[j].overflowed_ =>
                /\ connections'[k].overflowed_
                /\ connections'[k].frames_ = connections[j].frames_
                /\ connections'[k].pushed = connections[j].pushed

\* C18: overflowed is latched: once set on a sink it is never cleared
\* while the sink lives, and from then on the queue stays full (exactly 30
\* handles), no frame being popped or pushed, also when a do_send is in
\* progress at the moment it is set.
C18_OverflowedLatched ==
    /\ []OverflowedQueueFull
    /\ [][OverflowedStays]_vars

\* overflowed_ was set while do_send was writing the front frame; the
\* write finished the frame, and do_send has left its loop with the frame
\* still on the full queue.
C18_Witness ==
    /\ pc = "send_return"
    /\ send.finished_frame
    /\ send.observed = "overflowed"
    /\ connections[i].overflowed_
    /\ Len(connections[i].frames_) = frames_capacity
    /\ connections[i].nput > frames_capacity + 1

\* C19: write-interest (POLLOUT) is set only on slots whose connection is
\* a sink, never on the slot of an unknown or a source connection, so
\* do_send is never called on a connection that is not a sink.
C19_WriteInterestOnSinksOnly ==
    \A j \in Slots :
        POLLOUT \in poll_fds[j].events => connections[j].kind = "sink"

\* The unread messages in the wakeup pipe that put_frame of the connection
\* with identity c wrote.
UnreadFrom(pipe, c) == {m \in 1..Len(pipe) : pipe[m].from = c}

\* The wakeup pipe holds at most one unread message of each live sink.
OneUnreadMessagePerSink ==
    \A j \in Sinks :
        Cardinality(UnreadFrom(message_pipe_, connections[j].cid)) <= 1

\* A step that writes a message of sink j finds none of j's messages
\* unread, and every frame put on j before the one that caused the message
\* has been sent and popped.
MessageAfterReadAndEmptied ==
    \A j \in Sinks :
        Cardinality(UnreadFrom(message_pipe_', connections[j].cid))
            > Cardinality(UnreadFrom(message_pipe_, connections[j].cid))
        => /\ UnreadFrom(message_pipe_, connections[j].cid) = {}
           /\ connections[j].put_pc = "wake"
           /\ connections[j].pushed # <<>>
           /\ connections[j].frames_ \in
                 {<<>>, <<connections[j].pushed[Len(connections[j].pushed)]>>}

\* C20: for every live sink the wakeup pipe holds at most one unread
\* enable-output message written by that sink's put_frame; a further
\* message of the sink is written only after the earlier one has been read
\* and do_send has since emptied the sink's queue.
C20_OneUnreadMessage ==
    /\ []OneUnreadMessagePerSink
    /\ [][MessageAfterReadAndEmptied]_vars

\* The n-th frame put on sink cid has been pushed.
FramePushed(cid, n) ==
    \E j \in Sinks :
        /\ connections[j].cid = cid
        /\ n <= Len(connections[j].pushed)

\* The n-th frame pushed on sink cid has been written in full and popped.
FrameDelivered(cid, n) ==
    \E j \in Sinks :
        /\ connections[j].cid = cid
        /\ n <= Len(connections[j].pushed) - Len(connections[j].frames_)
        /\ Len(connections[j].wire) >= n * WireFrameLength(connections[j])

\* While serve() is in its loop, a live sink with a frame queued has
\* write-interest, or the message that will set it is in the pipe or about
\* to be written.
QueuedSinkSelectable ==
    \A j \in Sinks :
        (pc \notin {"exit", "done"} /\ connections[j].frames_ # <<>>) =>
            \/ POLLOUT \in poll_fds[j].events
            \/ UnreadFrom(message_pipe_, connections[j].cid) # {}
            \/ connections[j].put_pc = "wake"

\* C21: every frame pushed on a sink's queue is in the end written to the
\* socket in full and popped, unless the sink is dropped, when the socket
\* keeps becoming writable and the event loop and the mixer keep running;
\* and a live sink with a frame queued is never without the means of being
\* selected for do_send.
C21_FramesDelivered ==
    /\ []QueuedSinkSelectable
    /\ \A cid \in 1..MaxAccepts, n \in 1..MaxPuts :
          FramePushed(cid, n) ~> (FrameDelivered(cid, n) \/ cid \notin LiveCids)

\* A sink that was given MaxPuts frames, the last of them beginning a cut,
\* has sent them all: its queue is empty, the bytes of all of them are on
\* the wire, and its write-interest has been taken back.
C21_Witness ==
    \E j \in Sinks :
        /\ Len(connections[j].pushed) = MaxPuts
        /\ connections[j].pushed[MaxPuts].cut_before
        /\ connections[j].frames_ = <<>>
        /\ Len(connections[j].wire) = MaxPuts * WireFrameLength(connections[j])
        /\ POLLOUT \notin poll_fds[j].events
        /\ pc = "poll"

====
